---- MODULE Spec2Model ----
(***************************************************************************)
(* Model of unha2/client.py: Client (network_loop, handler_loop, the stop  *)
(* property, the reactions launched by the router), EventClient (the       *)
(* listener registry and event()) and OverrideClient (parse / on_changed). *)
(*                                                                         *)
(* The asyncio event loop is modelled by `ready`, the loop's FIFO of       *)
(* callbacks that are ready to run (call_soon appends to it, and           *)
(* ensure_future schedules the first step of the new task with call_soon). *)
(* A coroutine runs without interruption until it awaits something that    *)
(* is not ready, so handler_loop runs from one empty-queue `get()` to the  *)
(* next without any other callback in between: while hpc = "running" only  *)
(* handler_loop takes steps.                                               *)
(***************************************************************************)
EXTENDS Integers, Sequences, FiniteSets, TLC

\* Bounds of the model.
MaxMsgs  == 3      \* messages the transport yields
MaxStops == 1      \* assignments to Client.stop
MaxCbOps == 2      \* add_cb / del_cb calls made by the application
MaxFires == 1      \* event() calls made by the application

VARIABLES
    variant,    \* the class of the client object
    stop,       \* Client._stop
    queue,      \* Client._queue
    hpc,        \* position of the handler_loop coroutine
    ready,      \* the event loop's FIFO of ready callbacks and task steps
    data,       \* Client.data (ClientData)
    session,    \* the attribute Client.session
    callbacks,  \* EventClient.callbacks
    pending,    \* the ids held by Client._holder
    nextId,     \* the id the next method call gets
    sent,       \* what has been sent on the websocket, in order
    yielded,    \* number of messages the transport has yielded
    routed,     \* history: messages handler_loop has classified and routed
    passes,     \* history: one record for every call of event()
    invoked,    \* history: listener bodies that have started, in order
    delRet,     \* the last del_cb call of the application and what it returned
    stops,      \* number of assignments to stop so far
    cbops,      \* number of application add_cb / del_cb calls so far
    fires,      \* number of application event() calls so far
    timers,     \* the tasks suspended in asyncio.sleep
    closed,     \* the transport's inbound sequence has ended
    log,        \* history: exceptions raised, failures delivered, resends
    stopLog     \* history: the last value assigned to stop, and how many
                \* messages had been routed when stop became true

vars == <<variant, stop, queue, hpc, ready, data, session, callbacks, pending,
          nextId, sent, yielded, routed, passes, invoked, delRet, stops,
          cbops, fires, timers, closed, log, stopLog>>

Variants == {"Client", "EventClient", "OverrideClient"}

----------------------------------------------------------------------------
\* Messages.  n is the position of the message in the transport's stream
\* (0 for values that never came from the transport).

Msg(n, tag, id, res, coll) ==
    [n |-> n, msg |-> tag, id |-> id, res |-> res, coll |-> coll]

\* Python's None: the sentinel the stop setter enqueues, and event()'s
\* default payload.
NoneMsg == Msg(0, "None", 0, "", "")

\* What the transport can yield: the frames of the protocol, a frame with an
\* unrecognized "msg", and an empty JSON object.
Frames ==
    { Msg(0, t, 0, "", "") :
        t \in {"none", "ping", "pong", "connected", "added", "bogus", "{}"} }
    \cup { Msg(0, "result", 1, r, "") : r \in {"ok", "error"} }
    \cup { Msg(0, "ready", 1, "", "") }
    \cup { Msg(0, "changed", 0, "", c) : c \in {"users", "bogus"} }

\* `not msg`: None and the empty dict are false.
Falsy(m) == m.msg \in {"None", "{}"}

\* parse.base.msg_type
msg_type(m) ==
    CASE m.msg = "none"      -> "NONE"
      [] m.msg = "ping"      -> "PING"
      [] m.msg = "pong"      -> "PONG"
      [] m.msg = "connected" -> "CONNECTED"
      [] m.msg = "result"    -> "RESULT"
      [] m.msg = "ready"     -> "READY"
      [] m.msg = "added"     -> "ADDED"
      [] m.msg = "changed"   -> "CHANGED"
      [] m.msg = "updated"   -> "UPDATED"
      [] m.msg = "removed"   -> "REMOVED"
      [] m.msg = "failed"    -> "FAILED"
      [] OTHER               -> "UNKNOWN"

\* ChangedStreamMessage(msg['collection']): the event a known collection
\* maps to; "" when the enum constructor raises ValueError.
ChangedStreamMessage(c) ==
    CASE c = "users"                -> "users"
      [] c = "stream-notify-user"   -> "notify_user"
      [] c = "stream-notify-room"   -> "notify_room"
      [] c = "stream-room-messages" -> "room_message"
      [] OTHER                      -> ""

----------------------------------------------------------------------------
\* The event loop and the queue.

Item(kind, m, cb, name, pass) ==
    [kind |-> kind, m |-> m, cb |-> cb, name |-> name, pass |-> pass]

Task(kind, m) == Item(kind, m, "", "", 0)

\* asyncio.Queue.put_nowait: the item goes to the tail of the queue.
\* (A queue that puts at its head would be put_front.)
put_front(q, m) == <<m>> \o q
put_nowait(q, m) == Append(q, m)

\* put_nowait wakes the getter: when the queue q became q2 by a put, a
\* handler_loop suspended in get() is scheduled on the loop.
Wakes(q, q2) == hpc = "waiting" /\ Len(q2) > Len(q)
WakeHpc(q, q2) == IF Wakes(q, q2) THEN "woken" ELSE hpc
WakeReady(q, q2, rdy) ==
    IF Wakes(q, q2) THEN Append(rdy, Task("hwake", NoneMsg)) ELSE rdy

\* The queue after the stop setter has run with a true value (line 146);
\* a setter that only set the flag would leave it as StopQueueNoSentinel.
StopQueueNoSentinel(q) == q
StopQueue(q) == put_nowait(q, NoneMsg)

\* The flag after `stop = v` (lines 144-145): a true value sets it, a false
\* value leaves it (StopFlagAssigned: a setter that stored the value).
StopFlagAssigned(s, v) == v
StopFlag(s, v) == IF v THEN TRUE ELSE s

\* `while not self.stop` (line 156): handler_loop leaves its loop when the
\* flag is set (LoopIgnoresStop: a loop that never looked at the flag).
LoopIgnoresStop(s) == FALSE
LoopExits(s) == s

\* One more entry of the history.
Logged(l, ev, m) == Append(l, [ev |-> ev, m |-> m])

\* asyncio.ensure_future(coro): the first step of the new task is handed
\* to the loop with call_soon, behind what is ready already
\* (ensure_future_first: a loop that ran the newest task first).
ensure_future_first(rdy, task) == <<task>> \o rdy
ensure_future(rdy, task) == Append(rdy, task)

\* Where handler_loop is after it launched the reaction to a message of
\* type t with ensure_future: at the head of its loop
\* (AfterReactionAwaited: had it awaited do_login() instead, it would stay
\* there until the login call returned).
AfterReactionAwaited(t) == IF t = "CONNECTED" THEN "blocked" ELSE "running"
AfterReaction(t) == "running"

\* ClientAPI.send_pong: what has been sent once the pong has gone out
\* (pong_dropped: a send_pong that sent nothing).
pong_dropped(out) == out
pong_reply(out) == Append(out, Msg(0, "pong", 0, "", ""))

----------------------------------------------------------------------------
\* EventClient: the listener registry.

Names == {"added", "failed", "changed", "updated", "removed",
          "connection_established", "logged_in",
          "users", "notify_user", "notify_room", "room_message"}

\* The bound methods EventClient.__init__ registers.
Builtin == {"added", "failed", "changed", "updated", "removed"}

\* Callbacks of the application: s1, s2 and sDel are plain functions, a1 and
\* aAdd are coroutine functions.  When it runs, aAdd registers s2 under the
\* event it was fired for, and sDel removes s1 from it; the others only
\* return.
UserCbs == {"s1", "s2", "a1", "aAdd", "sDel"}

\* The event names the application registers its callbacks under.
UserNames == {"changed", "users"}

\* asyncio.iscoroutinefunction(cb)
iscoroutinefunction(cb) == cb \in {"a1", "aAdd"}

\* EventClient.__init__: self.callbacks
InitCallbacks ==
    [nm \in Names |-> IF nm \in Builtin THEN <<nm>> ELSE <<>>]

\* list.append
append(cbs, nm, cb) == [cbs EXCEPT ![nm] = Append(@, cb)]

Occurs(list, cb) == \E i \in 1..Len(list) : list[i] = cb

\* list.index: the position of the first element equal to cb
FirstIndex(list, cb) ==
    CHOOSE i \in 1..Len(list) :
        list[i] = cb /\ \A j \in 1..(i - 1) : list[j] # cb

DropIndex(list, i) == SubSeq(list, 1, i - 1) \o SubSeq(list, i + 1, Len(list))

\* list.remove(cb) where cb occurs: the first occurrence goes
\* (remove_head: a removal that took the head of the list instead).
remove_head(list, cb) == Tail(list)
remove(list, cb) == DropIndex(list, FirstIndex(list, cb))

\* EventClient.del_cb: the registry after the call, and what it returns.
del_cb_list(cbs, nm, cb) ==
    IF Occurs(cbs[nm], cb) THEN [cbs EXCEPT ![nm] = remove(@, cb)] ELSE cbs

del_cb_ret(cbs, nm, cb) == IF Occurs(cbs[nm], cb) THEN "True" ELSE "False"

\* The callback the closure `lambda: cb(data)` made for position i of the
\* list calls.  The lambda reads the loop variable cb of event() when the
\* event loop runs it, which is after the for loop has ended: cb is then
\* the last element of the list.
LambdaTarget(list, i) == list[Len(list)]

\* EventClient.event: what the pass over callbacks[name] hands to the event
\* loop, in order.  p is the number of the pass.
event(cbs, nm, d, p) ==
    LET list == cbs[nm] IN
    [i \in 1..Len(list) |->
        IF iscoroutinefunction(list[i])
        THEN Item("acb", d, list[i], nm, p)
        ELSE Item("scb", d, LambdaTarget(list, i), nm, p)]

\* The record of one call of event(): the listeners registered at the call.
Pass(cbs, nm, d) == [name |-> nm, listeners |-> cbs[nm], data |-> d]

\* What the body of callback cb does to the registry when it runs for event nm.
CbEffect(cbs, cb, nm) ==
    CASE cb = "aAdd" -> append(cbs, nm, "s2")
      [] cb = "sDel" -> del_cb_list(cbs, nm, "s1")
      [] OTHER       -> cbs

\* EventClient.changed(msg): the event it fires, "" when it fires none
\* (msg has no 'collection', the collection is not a ChangedStreamMessage,
\* both of which raise inside the callback).
ChangedEvent(d) ==
    IF d.msg = "None" THEN "" ELSE ChangedStreamMessage(d.coll)

----------------------------------------------------------------------------
\* The holder (unha2.holder.AsyncHolder) and the method calls
\* (unha2.methods): a call takes the next id, registers it with the holder,
\* sends its request and waits for the holder to resolve the id.

\* The holder registers the id of a call that is being made.
hold(held, id) == held \cup {id}

\* The request methods.login_sha256 sends under the id.
login_request(id) == Msg(0, "method", id, "login", "")

\* AsyncHolder.recv_result: the ids still held after msg m.
recv_result(held, m) == held \ {m.id}

\* The request methods.send_message sends under the id for the payload p
\* (room id and text).
send_message_request(id, p) == Msg(0, "method", id, "sendMessage", p)

\* The request the holder keeps with a held id, the recover_message of the
\* ServerException it raises: the request that went out under the id.
recover_message(out, id) ==
    LET S == {i \in 1..Len(out) : out[i].msg = "method" /\ out[i].id = id} IN
    IF S = {} THEN NoneMsg ELSE out[CHOOSE i \in S : TRUE]

\* What recv_result hands to the event loop: the waiter of a held id is
\* resumed with the result, ClientAPI.login for a login call and
\* methods.send_message for a message.
recv_result_wakes(held, m) ==
    IF m.id \in held
    THEN <<Task(IF recover_message(sent, m.id).res = "login"
                THEN "login_resume" ELSE "call_resume", m)>>
    ELSE <<>>

\* recv_result raises ServerException for the error result of a held id.
recv_result_raises(held, m) == m.id \in held /\ m.res # "ok"

\* AsyncHolder.recv_ready: no subscription is held in this model.
recv_ready(held, m) == held

\* The holder rejects a result or a ready signal for an id it does not
\* hold: it reports the message and drops it.
unknown_id(held, m) == m.id \notin held

----------------------------------------------------------------------------
Init ==
    /\ variant \in Variants
    /\ stop = FALSE
    /\ queue = <<>>
    /\ hpc = "idle"
    /\ ready = <<>>
    /\ data = [token |-> "", session |-> "", user_id |-> "",
               token_expires |-> "None"]
    /\ session = "unset"
    /\ callbacks = IF variant = "EventClient" THEN InitCallbacks
                   ELSE [nm \in Names |-> <<>>]
    /\ pending = {}
    /\ nextId = 1
    /\ sent = <<>>
    /\ yielded = 0
    /\ routed = <<>>
    /\ passes = <<>>
    /\ invoked = <<>>
    /\ delRet = [name |-> "", cb |-> "", ret |-> "None"]
    /\ stops = 0
    /\ cbops = 0
    /\ fires = 0
    /\ timers = {}
    /\ closed = FALSE
    /\ log = <<>>
    /\ stopLog = [value |-> "None", routed |-> -1]

\* The event loop is between two callbacks: handler_loop is not executing.
LoopIdle == hpc # "running"

counters == <<stops, cbops, fires>>
registry == <<callbacks, passes, invoked, delRet>>
account  == <<data, session, pending, nextId>>
recovery == <<timers, closed, log, stopLog>>

\* The application launches handler_loop as a task.
start_handler ==
    /\ hpc = "idle"
    /\ hpc' = "start"
    /\ ready' = Append(ready, Task("hstart", NoneMsg))
    /\ UNCHANGED <<variant, stop, queue, sent, yielded, routed>>
    /\ UNCHANGED <<counters, registry, account, recovery>>

\* Client.network_loop, one iteration of `async for msg in sock.ws_loop(ws)`
\* with a message of F.
network(F) ==
    /\ LoopIdle
    /\ ~closed
    /\ yielded < MaxMsgs
    /\ \E f \in F :
        queue' = put_nowait(queue, [f EXCEPT !.n = yielded + 1])
    /\ yielded' = yielded + 1
    /\ hpc' = WakeHpc(queue, queue')
    /\ ready' = WakeReady(queue, queue', ready)
    /\ UNCHANGED <<variant, stop, sent, routed>>
    /\ UNCHANGED <<counters, registry, account, recovery>>

network_loop == network(Frames)

\* The frames of the handshake, the login and the keepalive.
ControlFrames ==
    {f \in Frames : msg_type(f) \in {"NONE", "PING", "CONNECTED", "RESULT"}}

network_control == network(ControlFrames)

\* The push messages, and a frame that is none of the known ones.
PushFrames ==
    {f \in Frames : msg_type(f) \in {"ADDED", "CHANGED", "UNKNOWN"} /\ ~Falsy(f)}

network_push == network(PushFrames)

\* The setter of Client.stop, called with value v, when fewer than k
\* assignments have been made.
stop_set(k) ==
    /\ LoopIdle
    /\ stops < k
    /\ stops' = stops + 1
    /\ \E v \in BOOLEAN :
        /\ stop' = StopFlag(stop, v)
        /\ queue' = IF v THEN StopQueue(queue) ELSE queue
        /\ hpc' = WakeHpc(queue, queue')
        /\ ready' = WakeReady(queue, queue', ready)
        /\ stopLog' = [value |-> IF v THEN "True" ELSE "False",
                       routed |-> IF v /\ ~stop THEN Len(routed)
                                  ELSE stopLog.routed]
    /\ UNCHANGED <<variant, sent, yielded, routed, cbops, fires>>
    /\ UNCHANGED <<registry, account, timers, closed, log>>

stop_setter == stop_set(MaxStops)

\* Where handler_loop is after on_result or recv_ready returned (lines
\* 168-171): at the head of its loop, whether or not the id of the message
\* was held (AfterTerminalUnknownId: a router that let the rejection of an
\* id that is not held end the loop).
AfterTerminalUnknownId(held, m) ==
    IF m.id \in held THEN "running" ELSE "crashed"
AfterTerminal(held, m) == "running"

\* The body of handler_loop's loop for the dequeued message m (lines
\* 158-173); q is the queue and rdy the ready FIFO once m is taken.
Route(m, q, rdy) ==
    /\ queue' = q
    /\ UNCHANGED <<variant, stop, sent, yielded, counters, data, nextId>>
    /\ UNCHANGED <<callbacks, invoked, delRet, timers, closed, stopLog>>
    /\ IF Falsy(m)
       THEN /\ hpc' = "running"
            /\ ready' = rdy
            /\ UNCHANGED <<routed, passes, session, pending, log>>
       ELSE LET t == msg_type(m) IN
            /\ routed' = Append(routed, m)
            /\ CASE t = "NONE" /\ variant = "EventClient" ->
                    \* do_connect is a plain function here: it runs at once,
                    \* returns None, and ensure_future(None) raises TypeError.
                    /\ passes' = Append(passes,
                           Pass(callbacks, "connection_established", NoneMsg))
                    /\ ready' = (rdy \o event(callbacks,
                                   "connection_established", NoneMsg,
                                   Len(passes) + 1))
                                \o <<Task("send", Msg(0, "connect", 0, "", ""))>>
                    /\ hpc' = "crashed"
                    /\ log' = Logged(log, "TypeError", m)
                    /\ UNCHANGED <<session, pending>>
                 [] t = "NONE" /\ variant # "EventClient" ->
                    /\ ready' = ensure_future(rdy, Task("do_connect", m))
                    /\ hpc' = AfterReaction(t)
                    /\ UNCHANGED <<passes, session, pending, log>>
                 [] t = "PING" ->
                    /\ ready' = ensure_future(rdy, Task("send_pong", m))
                    /\ hpc' = AfterReaction(t)
                    /\ UNCHANGED <<passes, session, pending, log>>
                 [] t = "CONNECTED" ->
                    /\ session' = "session"
                    /\ ready' = ensure_future(rdy, Task("do_login", m))
                    /\ hpc' = AfterReaction(t)
                    /\ UNCHANGED <<passes, pending, log>>
                 [] t = "RESULT" ->
                    \* on_result
                    /\ pending' = recv_result(pending, m)
                    /\ ready' = (rdy \o recv_result_wakes(pending, m))
                                \o (IF recv_result_raises(pending, m)
                                    THEN <<Task("on_error", m)>> ELSE <<>>)
                    /\ log' = IF recv_result_raises(pending, m)
                              THEN Logged(log, "ServerException", m)
                              ELSE IF unknown_id(pending, m)
                              THEN Logged(log, "UnknownIdError", m) ELSE log
                    /\ hpc' = AfterTerminal(pending, m)
                    /\ UNCHANGED <<passes, session>>
                 [] t = "READY" ->
                    /\ pending' = recv_ready(pending, m)
                    /\ ready' = rdy
                    /\ log' = IF unknown_id(pending, m)
                              THEN Logged(log, "UnknownIdError", m) ELSE log
                    /\ hpc' = AfterTerminal(pending, m)
                    /\ UNCHANGED <<passes, session>>
                 [] OTHER ->
                    /\ ready' = ensure_future(rdy, Task("parse", m))
                    /\ hpc' = AfterReaction(t)
                    /\ UNCHANGED <<passes, session, pending, log>>

\* The first step of the handler_loop task: it reaches the head of the loop.
handler_start ==
    /\ LoopIdle
    /\ ready # <<>> /\ Head(ready).kind = "hstart"
    /\ hpc' = "running"
    /\ ready' = Tail(ready)
    /\ UNCHANGED <<variant, stop, queue, sent, yielded, routed>>
    /\ UNCHANGED <<counters, registry, account, recovery>>

\* handler_loop resumes in `await self._queue.get()` and goes through the
\* body of the loop with the message it gets.
handler_wake ==
    /\ LoopIdle
    /\ ready # <<>> /\ Head(ready).kind = "hwake"
    /\ Route(Head(queue), Tail(queue), Tail(ready))

\* handler_loop at `while not self.stop`: it ends, or suspends in get() on
\* an empty queue, or takes the next message through the body of the loop.
handler_loop ==
    /\ hpc = "running"
    /\ IF LoopExits(stop)
       THEN /\ hpc' = "done"
            /\ UNCHANGED <<variant, stop, queue, ready, sent, yielded, routed>>
            /\ UNCHANGED <<counters, registry, account, recovery>>
       ELSE IF queue = <<>>
       THEN /\ hpc' = "waiting"
            /\ UNCHANGED <<variant, stop, queue, ready, sent, yielded, routed>>
            /\ UNCHANGED <<counters, registry, account, recovery>>
       ELSE Route(Head(queue), Tail(queue), ready)

----------------------------------------------------------------------------
\* The tasks and callbacks the event loop runs, each from the head of `ready`.

Next1(kind) == LoopIdle /\ ready # <<>> /\ Head(ready).kind = kind

\* Client.do_connect (a coroutine): api.connect() launches the send of the
\* connect message.
do_connect ==
    /\ Next1("do_connect")
    /\ ready' = Append(Tail(ready), Task("send", Msg(0, "connect", 0, "", "")))
    /\ UNCHANGED <<variant, stop, queue, hpc, sent, yielded, routed>>
    /\ UNCHANGED <<counters, registry, account, recovery>>

\* sock.send(ws, message) launched by ClientAPI.connect.
sock_send ==
    /\ Next1("send")
    /\ sent' = Append(sent, Head(ready).m)
    /\ ready' = Tail(ready)
    /\ UNCHANGED <<variant, stop, queue, hpc, yielded, routed>>
    /\ UNCHANGED <<counters, registry, account, recovery>>

\* Client.send_pong -> ClientAPI.send_pong
send_pong ==
    /\ Next1("send_pong")
    /\ sent' = pong_reply(sent)
    /\ ready' = Tail(ready)
    /\ UNCHANGED <<variant, stop, queue, hpc, yielded, routed>>
    /\ UNCHANGED <<counters, registry, account, recovery>>

\* do_login -> ClientAPI.login up to its await: methods.login_sha256 sends
\* the login call under a fresh id and waits for the holder.
do_login ==
    /\ Next1("do_login")
    /\ pending' = hold(pending, nextId)
    /\ nextId' = nextId + 1
    /\ sent' = Append(sent, login_request(nextId))
    /\ ready' = Tail(ready)
    /\ UNCHANGED <<variant, stop, queue, hpc, yielded, routed, data, session>>
    /\ UNCHANGED <<counters, registry, recovery>>

\* ClientAPI.login after its await (lines 60-63), then the rest of do_login:
\* EventClient fires 'logged_in'.  An error result is raised out of the await.
login_resume ==
    /\ Next1("login_resume")
    /\ LET m == Head(ready).m IN
       IF m.res = "ok"
       THEN /\ data' = [data EXCEPT !.token = "token",
                                    !.token_expires = "expires",
                                    !.user_id = "user_id"]
            /\ IF variant = "EventClient"
               THEN /\ passes' = Append(passes, Pass(callbacks, "logged_in", m))
                    /\ ready' = Tail(ready) \o
                           event(callbacks, "logged_in", m, Len(passes) + 1)
               ELSE /\ ready' = Tail(ready)
                    /\ UNCHANGED passes
            /\ UNCHANGED log
       ELSE /\ ready' = Tail(ready)
            /\ log' = Logged(log, "failure", m)
            /\ UNCHANGED <<data, passes>>
    /\ UNCHANGED <<variant, stop, queue, hpc, sent, yielded, routed>>
    /\ UNCHANGED <<counters, callbacks, invoked, delRet, session, pending, nextId>>
    /\ UNCHANGED <<timers, closed, stopLog>>

\* The event EventClient.parse fires for a message type, "" for none.
ParseEvent(t) ==
    CASE t = "ADDED"   -> "added"
      [] t = "CHANGED" -> "changed"
      [] t = "UPDATED" -> "updated"
      [] t = "REMOVED" -> "removed"
      [] t = "FAILED"  -> "failed"
      [] OTHER         -> ""

\* What the task running self.parse(msg, msgtype) raises, "" for nothing:
\* Client.parse raises NotImplementedError, and OverrideClient.on_changed
\* calls ChangedStreamMessage on the collection of a Changed message.
ParseRaises(v, m) ==
    CASE v = "Client" -> "NotImplementedError"
      [] v = "OverrideClient" /\ msg_type(m) = "CHANGED"
                             /\ ChangedStreamMessage(m.coll) = "" -> "ValueError"
      [] OTHER -> ""

\* The task running self.parse(msg, msgtype): Client.parse raises
\* NotImplementedError inside the task, OverrideClient.parse ends in handlers
\* that do nothing, EventClient.parse fires the event of the message type.
parse ==
    /\ Next1("parse")
    /\ LET m == Head(ready).m
           nm == ParseEvent(msg_type(m)) IN
       /\ IF variant = "EventClient" /\ nm # ""
          THEN /\ passes' = Append(passes, Pass(callbacks, nm, m))
               /\ ready' = Tail(ready) \o event(callbacks, nm, m, Len(passes) + 1)
          ELSE /\ ready' = Tail(ready)
               /\ UNCHANGED passes
       /\ log' = IF ParseRaises(variant, m) # ""
                 THEN Logged(log, ParseRaises(variant, m), m) ELSE log
    /\ UNCHANGED <<variant, stop, queue, hpc, sent, yielded, routed>>
    /\ UNCHANGED <<counters, callbacks, invoked, delRet, account>>
    /\ UNCHANGED <<timers, closed, stopLog>>

\* ErrorType.TOO_MANY_REQUESTS.value: the error of the result m is that one.
TOO_MANY_REQUESTS(m) == m.res = "tmr"

\* OverrideClient.on_error goes on to on_too_many_requests (line 384)
\* (RetriesAnyError: an on_error without the test of the error type).
RetriesAnyError(m) == TRUE
Retries(m) == TOO_MANY_REQUESTS(m)

\* The task running self.on_error(...) for the error result m.
\* Client.on_error, which EventClient inherits, raises NotImplementedError;
\* OverrideClient.on_error reaches `await asyncio.sleep(timeout)` for a
\* too-many-requests error and does nothing for any other.
on_error ==
    /\ Next1("on_error")
    /\ LET m == Head(ready).m IN
       IF variant = "OverrideClient"
       THEN /\ timers' = IF Retries(m) THEN timers \cup {m} ELSE timers
            /\ UNCHANGED log
       ELSE /\ log' = Logged(log, "NotImplementedError", m)
            /\ UNCHANGED timers
    /\ ready' = Tail(ready)
    /\ UNCHANGED <<variant, stop, queue, hpc, sent, yielded, routed>>
    /\ UNCHANGED <<counters, registry, account, closed, stopLog>>

\* The time of a sleep is over: the loop resumes the sleeping task.
sleep_over ==
    /\ LoopIdle
    /\ \E m \in timers :
        /\ timers' = timers \ {m}
        /\ ready' = Append(ready, Task("slept", m))
    /\ UNCHANGED <<variant, stop, queue, hpc, sent, yielded, routed>>
    /\ UNCHANGED <<counters, registry, account, closed, log, stopLog>>

\* recover_message['rid'] and recover_message['msg'] (lines 390-391) are
\* there: the request is a message to a room.
HasRoomAndText(req) == req.res = "sendMessage"

\* OverrideClient.on_too_many_requests after its sleep (lines 390-392):
\* it reads the room and the text of the request and calls api.send_msg,
\* which launches methods.send_message; a request without them raises
\* KeyError.
on_too_many_requests ==
    /\ Next1("slept")
    /\ LET m == Head(ready).m
           req == recover_message(sent, m.id) IN
       IF HasRoomAndText(req)
       THEN /\ ready' = ensure_future(Tail(ready),
                            Task("send_message", Msg(0, "", 0, "", req.coll)))
            /\ log' = Logged(log, "resend", m)
       ELSE /\ ready' = Tail(ready)
            /\ log' = Logged(log, "KeyError", m)
    /\ UNCHANGED <<variant, stop, queue, hpc, sent, yielded, routed>>
    /\ UNCHANGED <<counters, registry, account, timers, closed, stopLog>>

\* The task of methods.send_message up to its await: it sends the message
\* call under a fresh id and waits for the holder.
send_message ==
    /\ Next1("send_message")
    /\ pending' = hold(pending, nextId)
    /\ nextId' = nextId + 1
    /\ sent' = Append(sent, send_message_request(nextId, Head(ready).m.coll))
    /\ ready' = Tail(ready)
    /\ UNCHANGED <<variant, stop, queue, hpc, yielded, routed, data, session>>
    /\ UNCHANGED <<counters, registry, recovery>>

\* methods.send_message after its await: the task ends with the result, or
\* with the error raised out of the await.
call_resume ==
    /\ Next1("call_resume")
    /\ LET m == Head(ready).m IN
       log' = IF m.res = "ok" THEN log ELSE Logged(log, "failure", m)
    /\ ready' = Tail(ready)
    /\ UNCHANGED <<variant, stop, queue, hpc, sent, yielded, routed>>
    /\ UNCHANGED <<counters, registry, account, timers, closed, stopLog>>

Invocation(h) == [pass |-> h.pass, cb |-> h.cb, name |-> h.name, data |-> h.m]

\* The task event() made with ensure_future(cb(data)): the body of the
\* coroutine function cb runs.
async_listener ==
    /\ Next1("acb")
    /\ LET h == Head(ready) IN
       /\ invoked' = Append(invoked, Invocation(h))
       /\ callbacks' = CbEffect(callbacks, h.cb, h.name)
    /\ ready' = Tail(ready)
    /\ UNCHANGED <<variant, stop, queue, hpc, sent, yielded, routed>>
    /\ UNCHANGED <<counters, passes, delRet, account, recovery>>

\* The callback event() made with call_soon(lambda: cb(data)).  Calling a
\* coroutine function only makes a coroutine object, which nothing awaits:
\* its body does not run.  EventClient.changed fires the event of the
\* collection.
sync_listener ==
    /\ Next1("scb")
    /\ LET h == Head(ready)
           ev == IF h.cb = "changed" THEN ChangedEvent(h.m) ELSE "" IN
       IF iscoroutinefunction(h.cb)
       THEN /\ ready' = Tail(ready)
            /\ UNCHANGED <<invoked, callbacks, passes>>
       ELSE /\ invoked' = Append(invoked, Invocation(h))
            /\ callbacks' = CbEffect(callbacks, h.cb, h.name)
            /\ IF ev # ""
               THEN /\ passes' = Append(passes, Pass(callbacks, ev, h.m))
                    /\ ready' = Tail(ready) \o
                           event(callbacks, ev, h.m, Len(passes) + 1)
               ELSE /\ ready' = Tail(ready)
                    /\ UNCHANGED passes
    /\ log' = IF Head(ready).cb = "changed" /\ ChangedEvent(Head(ready).m) = ""
              THEN Logged(log, IF Head(ready).m.msg = "None" THEN "TypeError"
                               ELSE "ValueError", Head(ready).m)
              ELSE log
    /\ UNCHANGED <<variant, stop, queue, hpc, sent, yielded, routed>>
    /\ UNCHANGED <<counters, delRet, account, timers, closed, stopLog>>

----------------------------------------------------------------------------
\* Calls the application makes on an EventClient.

\* The payloads the application fires events with.
FireData == {NoneMsg, Msg(0, "changed", 0, "", "users")}

\* EventClient.add_cb(nm, cb)
add_cb ==
    /\ LoopIdle /\ variant = "EventClient"
    /\ cbops < MaxCbOps
    /\ cbops' = cbops + 1
    /\ \E nm \in UserNames, cb \in UserCbs : callbacks' = append(callbacks, nm, cb)
    /\ UNCHANGED <<variant, stop, queue, hpc, ready, sent, yielded, routed>>
    /\ UNCHANGED <<stops, fires, passes, invoked, delRet, account, recovery>>

\* EventClient.del_cb(nm, cb)
del_cb ==
    /\ LoopIdle /\ variant = "EventClient"
    /\ cbops < MaxCbOps
    /\ cbops' = cbops + 1
    /\ \E nm \in UserNames, cb \in UserCbs \cup Builtin :
        /\ callbacks' = del_cb_list(callbacks, nm, cb)
        /\ delRet' = [name |-> nm, cb |-> cb,
                      ret |-> del_cb_ret(callbacks, nm, cb)]
    /\ UNCHANGED <<variant, stop, queue, hpc, ready, sent, yielded, routed>>
    /\ UNCHANGED <<stops, fires, passes, invoked, account, recovery>>

\* EventClient.event(nm, d) called by the application.
fire ==
    /\ LoopIdle /\ variant = "EventClient"
    /\ fires < MaxFires
    /\ fires' = fires + 1
    /\ \E nm \in UserNames, d \in FireData :
        /\ passes' = Append(passes, Pass(callbacks, nm, d))
        /\ ready' = ready \o event(callbacks, nm, d, Len(passes) + 1)
    /\ UNCHANGED <<variant, stop, queue, hpc, sent, yielded, routed>>
    /\ UNCHANGED <<stops, cbops, callbacks, invoked, delRet, account, recovery>>

----------------------------------------------------------------------------
\* The event loop runs the callback at the head of its ready FIFO.  With
\* the listeners EventClient.__init__ registers, all of them plain methods,
\* no hand-off is a coroutine listener's task.
RunReady ==
    \/ handler_start
    \/ handler_wake
    \/ do_connect
    \/ sock_send
    \/ send_pong
    \/ do_login
    \/ login_resume
    \/ parse
    \/ on_error
    \/ sync_listener

\* The client on a connection.
Next ==
    \/ start_handler
    \/ network_loop
    \/ stop_setter
    \/ handler_loop
    \/ RunReady

Spec == Init /\ [][Next]_vars

\* The listener registry alone, driven by the application.
NextD ==
    \/ add_cb
    \/ del_cb
    \/ fire
    \/ async_listener
    \/ sync_listener

SpecD == Init /\ [][NextD]_vars

\* An EventClient whose application registered listeners for 'changed'
\* (add_cb) before it launched the loops.
MaxRegs == 2
Registered ==
    UNION { [1..k -> {"s1", "a1"}] : k \in 0..MaxRegs }

InitE ==
    /\ variant = "EventClient"
    /\ stop = FALSE
    /\ queue = <<>>
    /\ hpc = "idle"
    /\ ready = <<>>
    /\ data = [token |-> "", session |-> "", user_id |-> "",
               token_expires |-> "None"]
    /\ session = "unset"
    /\ \E regs \in Registered :
        callbacks = [InitCallbacks EXCEPT !["changed"] = @ \o regs]
    /\ pending = {}
    /\ nextId = 1
    /\ sent = <<>>
    /\ yielded = 0
    /\ routed = <<>>
    /\ passes = <<>>
    /\ invoked = <<>>
    /\ delRet = [name |-> "", cb |-> "", ret |-> "None"]
    /\ stops = 0
    /\ cbops = 0
    /\ fires = 0
    /\ timers = {}
    /\ closed = FALSE
    /\ log = <<>>
    /\ stopLog = [value |-> "None", routed |-> -1]

\* The event loop of an EventClient: its do_connect is no task, it runs
\* inside handler_loop.
RunReadyE ==
    \/ handler_start
    \/ handler_wake
    \/ parse
    \/ async_listener
    \/ sync_listener

NextE ==
    \/ start_handler
    \/ network_push
    \/ stop_setter
    \/ handler_loop
    \/ RunReadyE

SpecE == InitE /\ [][NextE]_vars

\* The event loop when the connection carries control frames only.
RunReadyL ==
    \/ handler_start
    \/ handler_wake
    \/ do_connect
    \/ sock_send
    \/ send_pong
    \/ do_login
    \/ login_resume
    \/ on_error

NextL ==
    \/ start_handler
    \/ network_control
    \/ stop_setter
    \/ handler_loop
    \/ RunReadyL

\* The client on a connection that carries the handshake, the login and
\* the keepalive.
SpecC == Init /\ [][NextL]_vars

\* The calls of the application and their results.
MaxCalls == 1      \* api.send_msg calls made by the application

\* The room and text the application sends.
Texts == {"r1:hi"}

CallsMade == Cardinality({i \in 1..Len(log) : log[i].ev = "send_msg"})

\* ClientAPI.send_msg(room_id, text) called by the application: it launches
\* methods.send_message.
send_msg ==
    /\ LoopIdle
    /\ CallsMade < MaxCalls
    /\ \E p \in Texts :
        /\ ready' = ensure_future(ready, Task("send_message", Msg(0, "", 0, "", p)))
        /\ log' = Logged(log, "send_msg", Msg(0, "", 0, "", p))
    /\ UNCHANGED <<variant, stop, queue, hpc, sent, yielded, routed>>
    /\ UNCHANGED <<counters, registry, account, timers, closed, stopLog>>

\* Client.network_loop when the transport's sequence ends: the `async for`
\* is over and the two `async with` blocks release the websocket and the
\* session (lines 149-153).
network_close ==
    /\ LoopIdle
    /\ ~closed
    /\ closed' = TRUE
    /\ UNCHANGED <<variant, stop, queue, hpc, ready, sent, yielded, routed>>
    /\ UNCHANGED <<counters, registry, account, timers, log, stopLog>>

\* The frames that answer calls: the server's Connected, and the Result
\* (a result, an error, a too-many-requests error) and Ready of id 1.
CallFrames ==
    { Msg(0, "connected", 0, "", "") }
    \cup { Msg(0, "result", 1, r, "") : r \in {"ok", "error", "tmr"} }
    \cup { Msg(0, "ready", 1, "", "") }

network_calls == network(CallFrames)

RunReadyR ==
    \/ handler_start
    \/ handler_wake
    \/ do_login
    \/ login_resume
    \/ send_message
    \/ call_resume
    \/ on_error
    \/ on_too_many_requests

NextR ==
    \/ start_handler
    \/ network_calls
    \/ send_msg
    \/ sleep_over
    \/ handler_loop
    \/ RunReadyR

\* The client whose application makes calls, on a connection that carries
\* their results.
SpecR == Init /\ [][NextR]_vars

NextT ==
    \/ network_close
    \/ NextL

\* An application that assigns stop more than once.
MaxAssigns == 2    \* assignments to Client.stop

stop_assign == stop_set(MaxAssigns)

NextS ==
    \/ start_handler
    \/ network_control
    \/ stop_assign
    \/ handler_loop
    \/ RunReadyL

SpecS == Init /\ [][NextS]_vars

\* The client on a connection that can end.
SpecT == Init /\ [][NextT]_vars

\* The event loop runs every callback that is ready, and a coroutine that
\* is executing goes on to its next await.
LiveSpec == SpecC /\ WF_vars(RunReadyL) /\ WF_vars(handler_loop)

----------------------------------------------------------------------------
\* C1: handler_loop routes the transport's messages in the order the
\* transport yielded them: of two routed messages, the one routed first is
\* the one that arrived first, and no message is routed twice.
C1_RoutedInArrivalOrder ==
    \A i, j \in 1..Len(routed) : i < j => routed[i].n < routed[j].n

\* Two messages were routed while reaction tasks were pending on the loop
\* and a third message was waiting in the queue.
C1_Witness ==
    /\ Len(routed) >= 2
    /\ \E i \in 1..Len(ready) :
           ready[i].kind \in {"do_connect", "send_pong", "do_login"}
    /\ \E i \in 1..Len(queue) : ~Falsy(queue[i])

\* handler_loop has ended: it left the loop, or an exception left it.
Terminated == hpc \in {"done", "crashed"}

\* C2: once stop is set, a launched handler_loop is never left suspended
\* in get(), and it terminates, whether or not the transport yields
\* anything more.
C2_StopTerminates ==
    /\ [](stop => hpc # "waiting")
    /\ ((stop /\ hpc # "idle") ~> Terminated)

\* handler_loop was suspended on an empty queue when stop was set: nothing
\* ever came from the transport, and the sentinel has woken it.
C2_Witness ==
    /\ stop /\ yielded = 0
    /\ hpc = "woken"
    /\ queue = <<NoneMsg>>

----------------------------------------------------------------------------
\* The listener registry.

\* Every hand-off of pass p has run.
PassDone(p) == \A i \in 1..Len(ready) : ready[i].pass # p

\* The places of `invoked` where a listener body started in pass p.
StartsOf(p) == {i \in 1..Len(invoked) : invoked[i].pass = p}

\* C3: when a call of event() is over and its hand-offs have run, every
\* listener that was registered under the name at the call has been
\* invoked exactly as many times as it was registered: none skipped, none
\* invoked twice.
C3_EveryListenerOnce ==
    \A p \in 1..Len(passes) :
        PassDone(p) =>
            \A cb \in UserCbs \cup Builtin :
                Cardinality({i \in StartsOf(p) : invoked[i].cb = cb})
                = Cardinality({k \in 1..Len(passes[p].listeners) :
                                  passes[p].listeners[k] = cb})

\* C4: within one pass two different listeners start in an order the
\* registration order allows: the one started first is registered at a
\* place before a place of the one started later.
C4_StartOrder ==
    \A i, j \in 1..Len(invoked) :
        (i < j /\ invoked[i].pass = invoked[j].pass
               /\ invoked[i].cb # invoked[j].cb) =>
            LET list == passes[invoked[i].pass].listeners IN
            \E a, b \in 1..Len(list) :
                a < b /\ list[a] = invoked[i].cb /\ list[b] = invoked[j].cb

\* The callbacks that change the registry of the event they run for.
Mutators == {"aAdd", "sDel"}

\* C5: a pass in which a callback added or removed a listener of the same
\* name still invokes exactly the listeners that were registered when the
\* pass began: the removed one too, the added one not.
C5_SnapshotAtFire ==
    \A p \in 1..Len(passes) :
        (PassDone(p) /\ \E i \in StartsOf(p) : invoked[i].cb \in Mutators) =>
            {invoked[i].cb : i \in StartsOf(p)}
            = {passes[p].listeners[k] : k \in 1..Len(passes[p].listeners)}

\* C6: a del_cb call for a callback that is not registered under the name
\* returns False and leaves every listener list as it was; for a registered
\* callback it returns True, the list of the name loses one occurrence of
\* that callback and keeps the others in their order, and the lists of the
\* other names stay as they were.
C6_DelCb ==
    [][del_cb =>
        LET nm == delRet'.name
            cb == delRet'.cb
            old == callbacks[nm]
            new == callbacks'[nm] IN
        IF \A i \in 1..Len(old) : old[i] # cb
        THEN delRet'.ret = "False" /\ callbacks' = callbacks
        ELSE /\ delRet'.ret = "True"
             /\ \A other \in Names \ {nm} : callbacks'[other] = callbacks[other]
             /\ Len(new) = Len(old) - 1
             /\ \E i \in 1..Len(old) :
                    /\ old[i] = cb
                    /\ \A k \in 1..Len(new) :
                           new[k] = IF k < i THEN old[k] ELSE old[k + 1]]_vars

\* del_cb has returned False for a callback that is not registered under
\* 'changed', where the built-in listener and one of the application are.
C6_Witness ==
    /\ delRet.ret = "False"
    /\ delRet.name = "changed"
    /\ Len(callbacks["changed"]) = 2
    /\ callbacks["changed"][1] = "changed"
    /\ callbacks["changed"][2] \in UserCbs \ {delRet.cb}

\* C7: a listener is invoked for the push messages of one event name in
\* the order the messages arrived: never with a later message before an
\* earlier one.
C7_PushOrderPerEvent ==
    \A i, j \in 1..Len(invoked) :
        (/\ invoked[i].name = invoked[j].name
         /\ invoked[i].cb = invoked[j].cb
         /\ invoked[i].data.n >= 1
         /\ invoked[i].data.n < invoked[j].data.n) => i < j

\* Two 'changed' messages have been delivered to the same listener, an
\* asynchronous or a synchronous one, each from its own parse task.
C7_Witness ==
    \E i, j \in 1..Len(invoked) :
        /\ i < j
        /\ invoked[i].name = "changed" /\ invoked[j].name = "changed"
        /\ invoked[i].cb = invoked[j].cb
        /\ invoked[i].cb \in {"a1", "s1"}
        /\ invoked[i].data.n >= 1
        /\ invoked[i].data.n < invoked[j].data.n

----------------------------------------------------------------------------
\* Reactions.

\* The Result of the call with this id is in the queue.
ResultQueued(id) ==
    \E i \in 1..Len(queue) : msg_type(queue[i]) = "RESULT" /\ queue[i].id = id

\* The ids the transport's Result frames carry.
ResultIds == {f.id : f \in {g \in Frames : msg_type(g) = "RESULT"}}

\* The login call with this id was made and its await has returned.
LoginReturned(id) ==
    /\ id < nextId
    /\ id \notin pending
    /\ \A i \in 1..Len(ready) :
           ~(ready[i].kind = "login_resume" /\ ready[i].m.id = id)

\* C8: a login call that is awaiting its Result does not hold up
\* handler_loop: once the Result is in the queue, handler_loop gets to it
\* and the login call returns, unless handler_loop has ended before.
C8_LoginNeverBlocksConsumer ==
    \A id \in ResultIds :
        (id \in pending /\ ResultQueued(id)) ~> (LoginReturned(id) \/ Terminated)

\* The login launched on Connected has stored its result, and handler_loop
\* routed a Ping between the Connected and the Result of the login call.
C8_Witness ==
    /\ data.token = "token"
    /\ \E i, j, k \in 1..Len(routed) :
        /\ i < j /\ j < k
        /\ msg_type(routed[i]) = "CONNECTED"
        /\ msg_type(routed[j]) = "PING"
        /\ msg_type(routed[k]) = "RESULT" /\ routed[k].res = "ok"

PingsRouted == Cardinality({i \in 1..Len(routed) : msg_type(routed[i]) = "PING"})
PongsSent   == Cardinality({i \in 1..Len(sent) : sent[i].msg = "pong"})
PongsDue    == Cardinality({i \in 1..Len(ready) : ready[i].kind = "send_pong"})

\* handler_loop routes a Ping in this step.
RoutesPing ==
    /\ Len(routed') = Len(routed) + 1
    /\ msg_type(routed'[Len(routed')]) = "PING"

\* C9: every routed Ping is answered by one Pong, no more and no fewer:
\* the Pongs sent and the send_pong tasks still to run are as many as the
\* Pings routed, every send_pong task runs, and routing a Ping changes
\* neither the connection data, the session, the listener lists, the held
\* ids nor the stop flag.
C9_OnePongPerPing ==
    /\ [](PongsSent + PongsDue = PingsRouted)
    /\ [][RoutesPing => UNCHANGED <<data, session, callbacks, pending, stop>>]_vars
    /\ []<>(PongsSent = PingsRouted)

\* A Pong has gone out while a login call was still awaiting its Result.
C9_Witness ==
    /\ PongsSent >= 1
    /\ PongsSent = PingsRouted
    /\ pending # {}

\* C10: once Connected has been routed and the login call has stored its
\* result, ClientData holds the token, the session id and the user id.
C10_AccountCaptured ==
    ((\E i \in 1..Len(routed) : msg_type(routed[i]) = "CONNECTED")
        /\ data.token # "")
    => (data.token # "" /\ data.session # "" /\ data.user_id # "")

----------------------------------------------------------------------------
\* Errors of calls.

\* The places of the history where on_result caught a ServerException.
ServerErrors == {i \in 1..Len(log) : log[i].ev = "ServerException"}

\* Nothing is left to run of the reaction to the error result m: its
\* on_error task has run, and no sleep for it is under way or just over.
Settled(m) ==
    /\ m \notin timers
    /\ \A i \in 1..Len(ready) :
           ~(ready[i].kind \in {"on_error", "slept"} /\ ready[i].m = m)

\* How many times the request of the error result m has been resent.
Resends(m) ==
    Cardinality({j \in 1..Len(log) : log[j].ev = "resend" /\ log[j].m = m})

\* C11: for every too-many-requests error on_result catches for a held
\* call, whatever the class of the client and whatever the call, the
\* request is resent once when the reaction to the error is over, and not
\* at all while the sleep of the reset interval is still to end.
C11_RetryOnceAfterReset ==
    \A i \in ServerErrors :
        TOO_MANY_REQUESTS(log[i].m) =>
            IF Settled(log[i].m) THEN Resends(log[i].m) = 1
                                 ELSE Resends(log[i].m) = 0

\* The waiter of the call that the result m answers is still to be resumed.
Resuming(m) ==
    \E i \in 1..Len(ready) :
        ready[i].kind \in {"login_resume", "call_resume"} /\ ready[i].m = m

\* How many times the error of the result m was raised in the caller's await.
Failures(m) ==
    Cardinality({j \in 1..Len(log) : log[j].ev = "failure" /\ log[j].m = m})

\* The requests that have gone out or are about to.
Outbound ==
    Len(sent) + Cardinality({i \in 1..Len(ready) :
                                ready[i].kind \in {"send_message", "do_login"}})

\* What requests are made for: the Connected messages routed, the calls of
\* the application, and the resends after a too-many-requests error.
Caused ==
    Cardinality({i \in 1..Len(routed) : msg_type(routed[i]) = "CONNECTED"})
    + CallsMade
    + Cardinality({j \in 1..Len(log) : log[j].ev = "resend"})

\* C12: an error of a held call that is not too-many-requests makes no
\* request go out: nothing sleeps for it, nothing is resent for it, every
\* request that goes out is a login, a call of the application or the
\* resend of a too-many-requests error; and the error is raised in the
\* await of the caller, once.
C12_OtherErrorsSurfacedNotResent ==
    /\ Outbound = Caused
    /\ \A i \in ServerErrors :
           LET m == log[i].m IN
           ~TOO_MANY_REQUESTS(m) =>
               /\ Resends(m) = 0
               /\ m \notin timers
               /\ \A k \in 1..Len(ready) :
                      ~(ready[k].kind = "slept" /\ ready[k].m = m)
               /\ Failures(m) = IF Resuming(m) THEN 0 ELSE 1

\* An OverrideClient got an error other than too-many-requests for a
\* message it sent: on_error has run, and the caller has the error.
C12_Witness ==
    /\ variant = "OverrideClient"
    /\ \E i \in ServerErrors :
           /\ log[i].m.res = "error"
           /\ recover_message(sent, log[i].m.id).res = "sendMessage"
           /\ Settled(log[i].m)
           /\ Failures(log[i].m) = 1

----------------------------------------------------------------------------
\* Teardown.

\* The step that ends the connection: network_loop releases the transport,
\* or handler_loop leaves its loop because stop was set.
Teardown ==
    \/ ~closed /\ closed'
    \/ stop /\ hpc # "done" /\ hpc' = "done"

\* C13: the step that ends the connection leaves no call held: every call
\* that was still awaiting its result has been resolved by then.
C13_TeardownResolvesPending == [][Teardown => pending' = {}]_vars

----------------------------------------------------------------------------
\* Messages for ids that are not held.

\* handler_loop routes, in this step, a Result or a Ready whose id is not
\* held.
RoutesUnheld ==
    /\ Len(routed') = Len(routed) + 1
    /\ msg_type(routed'[Len(routed')]) \in {"RESULT", "READY"}
    /\ routed'[Len(routed')].id \notin pending

----------------------------------------------------------------------------
\* Input the router does not recognize.

\* A message of a kind the router does not act on, or a Changed message
\* whose collection is none of the known ones.
Unrecognized(m) ==
    \/ msg_type(m) \in {"UNKNOWN", "PONG"}
    \/ msg_type(m) = "CHANGED" /\ ChangedStreamMessage(m.coll) = ""

\* handler_loop routes an unrecognized message in this step.
RoutesUnrecognized ==
    /\ Len(routed') = Len(routed) + 1
    /\ Unrecognized(routed'[Len(routed')])

\* C15: for an EventClient and an OverrideClient, an unrecognized message
\* is swallowed: routing it sends nothing, changes no listener list and
\* leaves handler_loop at the head of its loop, and no exception is ever
\* raised for it, neither in handler_loop nor in the parse task or the
\* listener it is handed to.
C15_UnrecognizedSwallowed ==
    /\ [](variant \in {"EventClient", "OverrideClient"} =>
            \A i \in 1..Len(routed) :
                Unrecognized(routed[i]) =>
                    \A l \in 1..Len(log) :
                        log[l].m = routed[i] =>
                            log[l].ev \notin {"ValueError", "TypeError",
                                              "NotImplementedError", "KeyError"})
    /\ [][(variant \in {"EventClient", "OverrideClient"} /\ RoutesUnrecognized)
            => (UNCHANGED <<sent, callbacks>> /\ hpc' = "running")]_vars

----------------------------------------------------------------------------
\* The handshake and the login.

NonesRouted ==
    Cardinality({i \in 1..Len(routed) : msg_type(routed[i]) = "NONE"})

ConnectedsRouted ==
    Cardinality({i \in 1..Len(routed) : msg_type(routed[i]) = "CONNECTED"})

\* The connect messages that have gone out or are about to.
Handshakes ==
    Cardinality({i \in 1..Len(sent) : sent[i].msg = "connect"})
    + Cardinality({i \in 1..Len(ready) :
                      \/ ready[i].kind = "do_connect"
                      \/ ready[i].kind = "send" /\ ready[i].m.msg = "connect"})

\* The login calls that have been made or are about to.
Logins ==
    Cardinality({i \in 1..Len(sent) : sent[i].res = "login"})
    + Cardinality({i \in 1..Len(ready) : ready[i].kind = "do_login"})

\* C16: for every class of client, each None message routed makes one
\* connect message go out and leaves handler_loop in its loop, where it
\* routes what comes next; an EventClient also fires
\* 'connection_established' once for it.
C16_NoneSendsHandshake ==
    /\ Handshakes = NonesRouted
    /\ NonesRouted > 0 => hpc # "crashed"
    /\ variant = "EventClient" =>
           Cardinality({p \in 1..Len(passes) :
                           passes[p].name = "connection_established"})
           = NonesRouted

\* What the protocol's states allow: one handshake, for the first None
\* message (the only message that leaves the Fresh state), and one login,
\* for the first Connected message that comes after it.
AllowedHandshakes == IF NonesRouted > 0 THEN 1 ELSE 0

AllowedLogins ==
    IF \E i, j \in 1..Len(routed) :
           i < j /\ msg_type(routed[i]) = "NONE"
                 /\ msg_type(routed[j]) = "CONNECTED"
    THEN 1 ELSE 0

\* C17: the handshake is sent for a None message in the Fresh state only
\* and the login is made for a Connected message that follows the
\* handshake only: a None or a Connected message that comes later, or a
\* Connected that comes before any handshake, causes neither.
C17_ProtocolStates ==
    /\ Handshakes = AllowedHandshakes
    /\ Logins = AllowedLogins

----------------------------------------------------------------------------
\* The stop flag.

\* C18: once stop is true, handler_loop routes at most one message more
\* than it had routed when stop became true; whatever else is in the queue
\* or comes later is never routed.
C18_AtMostOneAfterStop == stop => Len(routed) <= stopLog.routed + 1

\* handler_loop had been woken for a message when stop was set: it routed
\* that message and ended, and a message that arrived behind it is still
\* in the queue.
C18_Witness ==
    /\ stop /\ hpc = "done"
    /\ Len(routed) = stopLog.routed + 1
    /\ \E i \in 1..Len(queue) : ~Falsy(queue[i])

\* The setter of stop runs in this step.
Assigns == stops' = stops + 1

\* C19: stop is false at first; once it is true it stays true; and an
\* assignment of a false value leaves the flag and the queue as they are.
C19_StopMonotonic ==
    /\ stop = FALSE
    /\ [][stop => stop']_vars
    /\ [][(Assigns /\ stopLog'.value = "False") => UNCHANGED <<stop, queue>>]_vars

\* A false value was assigned after stop had been set: the flag is still
\* true and the queue holds the sentinel of the first assignment only.
C19_Witness ==
    /\ stops = 2 /\ stopLog.value = "False"
    /\ stop
    /\ Cardinality({i \in 1..Len(queue) : queue[i] = NoneMsg}) <= 1

====
